---- MODULE Spec2Model ----
(***************************************************************************)
(* RPython debug tracebacks (rpython/translator/c/src/debug_traceback.h):  *)
(* a circular buffer of (location, exctype) pairs, the PYPYDTSTORE append, *)
(* and the decoding of the buffer into exception segments.                 *)
(*                                                                         *)
(* The header defines the store and the append.  The decoder               *)
(* (pypy_debug_traceback_print) is only declared there; it is modelled     *)
(* from the specification's section 4.2, together with the total-writes    *)
(* counter that section relies on.                                         *)
(***************************************************************************)
EXTENDS Integers, Sequences, FiniteSets, TLC

VARIABLES
  RPY_LL_ASSERT,          \* build flag selecting the buffer depth
  pypy_debug_tracebacks,  \* the circular buffer: index -> [location, exctype]
  pypydtcount,            \* the write cursor
  total_writes,           \* total-writes-ever counter (spec section 3)
  recorded,               \* history: every entry handed to a recorder, oldest first
  output,                 \* result of the last decode since the last append
  decoded,                \* TRUE when output holds a decode of the current store
  pc,                     \* position of the writer inside PYPYDTSTORE
  arg,                    \* operands of the PYPYDTSTORE in progress
  seen,                   \* what a decode on another thread last read
  running,                \* the thread that is executing
  owner,                  \* history: the thread that made each recorded append
  handler,                \* position inside pypy_debug_catch_fatal_exception
  scan,                   \* the decoder's scan in progress
  stream,                 \* lines written to the diagnostic stream
  status                  \* exit status of the process once it has terminated

\* The threads' part of the state.
threads == <<running, owner>>

\* The fatal handler's part of the state.
fatal == <<handler, scan, stream, status>>

vars == <<RPY_LL_ASSERT, pypy_debug_tracebacks, pypydtcount, total_writes,
          recorded, output, decoded, pc, arg, seen, running, owner,
          handler, scan, stream, status>>

----------------------------------------------------------------------------
(* Bounds of the model.  The buffer depths 128 and 8192 are scaled down to  *)
(* 2^DefaultBits and 2^DebugBits; they stay powers of two.                  *)

DefaultBits == 2

DebugBits == 3

MaxWrites == 6

\* Appends in the specification that interleaves the macro's statements.
RaceWrites == 3

----------------------------------------------------------------------------
(* Pointers are integers: NULL is 0, the re-raise sentinel is (T* ) -1, and *)
(* real addresses are positive.                                             *)

NULL == 0

PYPYDTPOS_RERAISE == -1

\* Addresses of the static struct pypydtpos_s of four call sites.
PositionAddrs == <<16, 32, 48, 64>>

h_5 == PositionAddrs[1]

g_12 == PositionAddrs[2]

f_17 == PositionAddrs[3]

entry_25 == PositionAddrs[4]

\* struct pypydtpos_s { filename; funcname; lineno }, read through a pointer.
pypydtpos_s(p) ==
  CASE p = h_5      -> [filename |-> "h", funcname |-> "h", lineno |-> 5]
    [] p = g_12     -> [filename |-> "g", funcname |-> "g", lineno |-> 12]
    [] p = f_17     -> [filename |-> "f", funcname |-> "f", lineno |-> 17]
    [] p = entry_25 -> [filename |-> "entry", funcname |-> "entry", lineno |-> 25]

\* Addresses of two exception type objects.
ExcTypeAddrs == <<1000, 2000>>

KeyError == ExcTypeAddrs[1]

ValueError == ExcTypeAddrs[2]

Locations == {g_12, f_17}

Tokens == {KeyError, ValueError}

ExampleLocations == {h_5, g_12, f_17, entry_25}

ExampleTokens == {KeyError}

ExampleReraiseTokens == {KeyError, ValueError}

----------------------------------------------------------------------------
(* The store.                                                               *)

RECURSIVE Pow2(_)
Pow2(n) == IF n = 0 THEN 1 ELSE 2 * Pow2(n - 1)

\* #ifdef RPY_LL_ASSERT ... 8192 ... #else ... 128
DepthOf(ll_assert) == IF ll_assert THEN Pow2(DebugBits) ELSE Pow2(DefaultBits)

PYPY_DEBUG_TRACEBACK_DEPTH == DepthOf(RPY_LL_ASSERT)

\* Bitwise AND of two non-negative ints.
RECURSIVE BitAnd(_, _)
BitAnd(a, b) ==
  IF a = 0 \/ b = 0 THEN 0
  ELSE (IF a % 2 = 1 /\ b % 2 = 1 THEN 1 ELSE 0) + 2 * BitAnd(a \div 2, b \div 2)

\* struct pypydtentry_s { location; exctype }
pypydtentry_s(loc, etype) == [location |-> loc, exctype |-> etype]

\* A slot of the zero-initialised static array.
EmptySlot == pypydtentry_s(NULL, NULL)

\* Mutant: the location is stored into every slot, not only the cursor's.
StoreLocation_Everywhere(tb, c, loc) ==
  [i \in DOMAIN tb |-> [tb[i] EXCEPT !.location = loc]]

\* pypy_debug_tracebacks[pypydtcount].location = loc;
StoreLocation(tb, c, loc) == [tb EXCEPT ![c].location = loc]

\* Mutant: the exctype store is left out.
StoreExctype_Skipped(tb, c, etype) == tb

\* pypy_debug_tracebacks[pypydtcount].exctype = etype;
StoreExctype(tb, c, etype) == [tb EXCEPT ![c].exctype = etype]

\* Mutant: masks with DEPTH instead of DEPTH-1.
AdvanceCount_WrongMask(c, depth) == BitAnd(c + 1, depth)

\* Mutant: the cursor is masked but never incremented.
AdvanceCount_Stuck(c, depth) == BitAnd(c, depth - 1)

\* pypydtcount = (pypydtcount + 1) & (PYPY_DEBUG_TRACEBACK_DEPTH-1)
AdvanceCount(c, depth) == BitAnd(c + 1, depth - 1)

\* Mutant: both stores are left out, only the cursor moves.
PYPYDTSTORE_CursorOnly(loc, etype) ==
  /\ pypy_debug_tracebacks' = pypy_debug_tracebacks
  /\ pypydtcount' = AdvanceCount(pypydtcount, PYPY_DEBUG_TRACEBACK_DEPTH)

\* Mutant: the cursor is advanced before the two stores instead of after.
PYPYDTSTORE_PreIncrement(loc, etype) ==
  /\ pypydtcount' = AdvanceCount(pypydtcount, PYPY_DEBUG_TRACEBACK_DEPTH)
  /\ pypy_debug_tracebacks' =
       StoreExctype(StoreLocation(pypy_debug_tracebacks, pypydtcount', loc),
                    pypydtcount', etype)

\* The whole macro, run by one thread without interruption.
PYPYDTSTORE(loc, etype) ==
  /\ pypy_debug_tracebacks' =
       StoreExctype(StoreLocation(pypy_debug_tracebacks, pypydtcount, loc),
                    pypydtcount, etype)
  /\ pypydtcount' = AdvanceCount(pypydtcount, PYPY_DEBUG_TRACEBACK_DEPTH)

----------------------------------------------------------------------------
(* Entries and their (location, exctype) encoding, as in the header's table *)
(*     NULL      &KeyError    a KeyError was raised                         *)
(*     h:5       NULL         it was raised at h:5                          *)
(*     RERAISE   &KeyError    eventually the KeyError is re-raised          *)

Frame(loc) == [kind |-> "frame", loc |-> loc, exc |-> NULL]

Origin(tok) == [kind |-> "origin", loc |-> NULL, exc |-> tok]

Reraise(tok) == [kind |-> "reraise", loc |-> NULL, exc |-> tok]

\* Mutant: the sentinel test is left out, so RERAISE passes for a location.
Classify_NoSentinel(slot) ==
  IF slot.location # NULL
    THEN [kind |-> "frame", loc |-> slot.location, exc |-> slot.exctype]
  ELSE [kind |-> "origin", loc |-> NULL, exc |-> slot.exctype]

\* How a reader of the buffer interprets one slot.
Classify(slot) ==
  IF slot.location = PYPYDTPOS_RERAISE
    THEN [kind |-> "reraise", loc |-> NULL, exc |-> slot.exctype]
  ELSE IF slot.location # NULL
    THEN [kind |-> "frame", loc |-> slot.location, exc |-> slot.exctype]
  ELSE [kind |-> "origin", loc |-> NULL, exc |-> slot.exctype]

----------------------------------------------------------------------------
(* The decoder (spec section 4.2).                                          *)

Min(a, b) == IF a <= b THEN a ELSE b

\* Mutant: the scan goes twice around the ring.
ValidCount_TwiceAround(writes, depth) == 2 * depth

\* Number of entries the scan visits: min(total_writes_ever, capacity).
ValidCount(writes, depth) == Min(writes, depth)

\* Index of the k-th slot visited (k = 1 is the slot just before the cursor).
ScanIndex(c, depth, k) == (c + depth - k) % depth

\* The entries the scan visits, newest first.
ScanWindow(tb, c, writes, depth) ==
  [k \in 1..ValidCount(writes, depth) |-> Classify(tb[ScanIndex(c, depth, k)])]

\* State of the scan: closed segments, and the current segment being built
\* (its elements nearest-first, and the exception it continues, if any).
ScanStart == [segs |-> <<>>, cont |-> FALSE, tok |-> NULL, path |-> <<>>]

Segment(tok, origin, path) == [exc |-> tok, origin |-> origin, path |-> path]

\* One step of the backward scan, on the current segment.
\*   Frame:   attach it to the current segment.
\*   Origin:  close the current segment, labelled with the token.  Inside a
\*            continuation only the matching token closes (and links) it; an
\*            origin of another token is attributed to the continuation.
\*   Reraise: open a continuation of the token; the frames collected so far
\*            are the part of its path after the re-raise.  A continuation
\*            of the same token is carried on (linked by token equality); a
\*            continuation of another token has found no origin and is
\*            closed as unknown.
ScanStep(st, e) ==
  CASE e.kind = "frame" -> [st EXCEPT !.path = Append(@, e)]
    [] e.kind = "origin" ->
         IF ~st.cont \/ st.tok = e.exc
           THEN [segs |-> Append(st.segs, Segment(e.exc, "known", Append(st.path, e))),
                 cont |-> FALSE, tok |-> NULL, path |-> <<>>]
           ELSE [st EXCEPT !.path = Append(@, e)]
    [] e.kind = "reraise" ->
         IF ~st.cont
           THEN [st EXCEPT !.cont = TRUE, !.tok = e.exc, !.path = Append(@, e)]
         ELSE IF st.tok = e.exc
           THEN [st EXCEPT !.path = Append(@, e)]
         ELSE [segs |-> Append(st.segs, Segment(st.tok, "unknown", st.path)),
               cont |-> TRUE, tok |-> e.exc, path |-> <<e>>]

RECURSIVE ScanFrom(_, _, _)
ScanFrom(st, w, k) ==
  IF k > Len(w) THEN st ELSE ScanFrom(ScanStep(st, w[k]), w, k + 1)

\* The scan ran out of entries: an open continuation has an unknown origin,
\* and so have frames collected with no origin marker.
ScanFinish(st) ==
  IF st.cont \/ st.path # <<>>
    THEN Append(st.segs, Segment(st.tok, "unknown", st.path))
    ELSE st.segs

Decode(tb, c, writes, depth) ==
  ScanFinish(ScanFrom(ScanStart, ScanWindow(tb, c, writes, depth), 1))

----------------------------------------------------------------------------
(* Operations.                                                              *)

\* What every append does besides the macro: the counter and the history.
Appended(e) ==
  /\ total_writes < MaxWrites
  /\ pc = "idle"
  /\ handler = "none"
  /\ total_writes' = total_writes + 1
  /\ recorded' = Append(recorded, e)
  /\ owner' = Append(owner, running)
  /\ output' = <<>>
  /\ decoded' = FALSE
  /\ UNCHANGED <<RPY_LL_ASSERT, pc, arg, seen, running, fatal>>

record_frame(loc) == PYPYDTSTORE(loc, NULL) /\ Appended(Frame(loc))

\* Mutant: the two operands of the macro are swapped.
record_origin_Swapped(tok) == PYPYDTSTORE(tok, NULL) /\ Appended(Origin(tok))

record_origin(tok) == PYPYDTSTORE(NULL, tok) /\ Appended(Origin(tok))

\* Mutant: the sentinel is forgotten, the entry is stored like an origin.
record_reraise_NoSentinel(tok) == PYPYDTSTORE(NULL, tok) /\ Appended(Reraise(tok))

record_reraise(tok) == PYPYDTSTORE(PYPYDTPOS_RERAISE, tok) /\ Appended(Reraise(tok))

pypy_debug_traceback_print ==
  /\ pc = "idle"
  /\ handler = "none"
  /\ output' = Decode(pypy_debug_tracebacks, pypydtcount, total_writes,
                      PYPY_DEBUG_TRACEBACK_DEPTH)
  /\ decoded' = TRUE
  /\ UNCHANGED <<RPY_LL_ASSERT, pypy_debug_tracebacks, pypydtcount,
                 total_writes, recorded, pc, arg, seen, threads, fatal>>

\* No scan in progress.
ScanIdle == [k |-> 0, st |-> ScanStart, visited |-> <<>>]

\* What a reader on another thread holds before it has read anything.
NothingSeen ==
  [index |-> 0, count |-> 0, location |-> NULL, exctype |-> NULL, writing |-> FALSE]

InitStore(ll_assert) ==
  /\ RPY_LL_ASSERT = ll_assert
  /\ pypy_debug_tracebacks = [i \in 0..(DepthOf(ll_assert) - 1) |-> EmptySlot]
  /\ pypydtcount = 0
  /\ total_writes = 0
  /\ recorded = <<>>
  /\ output = <<>>
  /\ decoded = FALSE
  /\ pc = "idle"
  /\ arg = EmptySlot
  /\ seen = NothingSeen
  /\ running = "main"
  /\ owner = <<>>
  /\ handler = "none"
  /\ scan = ScanIdle
  /\ stream = <<>>
  /\ status = 0

Init == \E ll_assert \in BOOLEAN : InitStore(ll_assert)

Next ==
  \/ \E loc \in Locations : record_frame(loc)
  \/ \E tok \in Tokens : record_origin(tok)
  \/ \E tok \in Tokens : record_reraise(tok)
  \/ pypy_debug_traceback_print

Spec == Init /\ [][Next]_vars

\* The debug build, driven with the call sites of the header's example.
InitExample == InitStore(TRUE)

NextExample ==
  \/ \E loc \in ExampleLocations : record_frame(loc)
  \/ \E tok \in ExampleTokens : record_origin(tok)
  \/ \E tok \in ExampleReraiseTokens : record_reraise(tok)
  \/ pypy_debug_traceback_print

SpecExample == InitExample /\ [][NextExample]_vars

----------------------------------------------------------------------------
(* PYPYDTSTORE statement by statement, with a reader on another thread.  The *)
(* buffer and the cursor are plain globals and the macro is three plain     *)
(* assignments, so another thread can run between any two of them.          *)

\* pypy_debug_tracebacks[pypydtcount].location = loc;
store_location(loc, etype) ==
  /\ pc = "idle"
  /\ total_writes < RaceWrites
  /\ pypy_debug_tracebacks' = StoreLocation(pypy_debug_tracebacks, pypydtcount, loc)
  /\ arg' = pypydtentry_s(loc, etype)
  /\ pc' = "exctype"
  /\ UNCHANGED <<RPY_LL_ASSERT, pypydtcount, total_writes, recorded, output,
                 decoded, seen, threads, fatal>>

\* pypy_debug_tracebacks[pypydtcount].exctype = etype;
store_exctype ==
  /\ pc = "exctype"
  /\ pypy_debug_tracebacks' =
       StoreExctype(pypy_debug_tracebacks, pypydtcount, arg.exctype)
  /\ pc' = "count"
  /\ UNCHANGED <<RPY_LL_ASSERT, pypydtcount, total_writes, recorded, output,
                 decoded, arg, seen, threads, fatal>>

\* pypydtcount = (pypydtcount + 1) & (PYPY_DEBUG_TRACEBACK_DEPTH-1)
store_count ==
  /\ pc = "count"
  /\ pypydtcount' = AdvanceCount(pypydtcount, PYPY_DEBUG_TRACEBACK_DEPTH)
  /\ pc' = "idle"
  /\ total_writes' = total_writes + 1
  /\ recorded' = Append(recorded, Classify(arg))
  /\ owner' = Append(owner, running)
  /\ UNCHANGED <<RPY_LL_ASSERT, pypy_debug_tracebacks, output, decoded, arg,
                 seen, running, fatal>>

\* A decode on another thread reads the cursor and slot i.
read_slot(i) ==
  /\ seen' = [index |-> i, count |-> pypydtcount,
              location |-> pypy_debug_tracebacks[i].location,
              exctype |-> pypy_debug_tracebacks[i].exctype,
              writing |-> pc # "idle"]
  /\ UNCHANGED <<RPY_LL_ASSERT, pypy_debug_tracebacks, pypydtcount,
                 total_writes, recorded, output, decoded, pc, arg, threads, fatal>>

InitRace == InitStore(FALSE)

NextRace ==
  \/ \E tok \in Tokens : store_location(PYPYDTPOS_RERAISE, tok)
  \/ \E tok \in Tokens : store_location(NULL, tok)
  \/ \E loc \in Locations : store_location(loc, NULL)
  \/ store_exctype
  \/ store_count
  \/ \E i \in DOMAIN pypy_debug_tracebacks : read_slot(i)

SpecRace == InitRace /\ [][NextRace]_vars

----------------------------------------------------------------------------
(* Two threads of a multi-threaded host.  pypydtcount and                   *)
(* pypy_debug_tracebacks are one pair of globals of the process, and        *)
(* PYPYDTSTORE names them directly, so whichever thread runs appends to     *)
(* that one buffer.  Each append here is the whole macro (no thread switch  *)
(* inside it).                                                              *)

Threads == {"main", "worker"}

\* The host schedules another thread; a decode result belongs to the thread
\* that asked for it.
switch_thread(t) ==
  /\ pc = "idle"
  /\ handler = "none"
  /\ t # running
  /\ running' = t
  /\ output' = <<>>
  /\ decoded' = FALSE
  /\ UNCHANGED <<RPY_LL_ASSERT, pypy_debug_tracebacks, pypydtcount,
                 total_writes, recorded, pc, arg, seen, owner, fatal>>

InitThreads == InitStore(FALSE)

ThreadLocations == {g_12}

ThreadTokens == {KeyError}

NextThreads ==
  \/ \E loc \in ThreadLocations : record_frame(loc)
  \/ \E tok \in ThreadTokens : record_origin(tok)
  \/ \E tok \in ThreadTokens : record_reraise(tok)
  \/ pypy_debug_traceback_print
  \/ \E t \in Threads : switch_thread(t)

SpecThreads == InitThreads /\ [][NextThreads]_vars

----------------------------------------------------------------------------
(* The fatal handler (spec section 4.3; pypy_debug_catch_fatal_exception is *)
(* only declared in the header): decode, render to the diagnostic stream,   *)
(* terminate the process.  The decode is the scan of section 4.2, one slot  *)
(* per step.                                                                *)

\* Display name of an exception type, supplied by the type-naming system.
ExcName(tok) ==
  CASE tok = KeyError   -> "KeyError"
    [] tok = ValueError -> "ValueError"
    [] OTHER            -> "?"

\* One line of text per element: routine:line for a frame, a distinct line
\* for a re-raise, the display name for a fresh origin.
RenderElement(e) ==
  CASE e.kind = "frame" ->
         [line |-> "frame", routine |-> pypydtpos_s(e.loc).funcname,
          lineno |-> pypydtpos_s(e.loc).lineno]
    [] e.kind = "reraise" -> [line |-> "re-raised", name |-> ExcName(e.exc)]
    [] e.kind = "origin"  -> [line |-> "raised", name |-> ExcName(e.exc)]

RenderSegment(seg) ==
  <<[line |-> "exception", name |-> ExcName(seg.exc), origin |-> seg.origin]>>
    \o [i \in 1..Len(seg.path) |-> RenderElement(seg.path[i])]

RECURSIVE render(_)
render(segs) ==
  IF segs = <<>> THEN <<>> ELSE RenderSegment(Head(segs)) \o render(Tail(segs))

\* Status of a process ended by the handler.
EXIT_FATAL == 1

\* The exception reached the top of the call stack: the handler starts, and
\* with it the scan, at the slot just before the cursor.
on_unhandled_exception ==
  /\ pc = "idle"
  /\ handler = "none"
  /\ handler' = "decode"
  /\ scan' = [k |-> 1, st |-> ScanStart, visited |-> <<>>]
  /\ UNCHANGED <<RPY_LL_ASSERT, pypy_debug_tracebacks, pypydtcount,
                 total_writes, recorded, output, decoded, pc, arg, seen,
                 threads, stream, status>>

\* Mutant: the scan empties the slot it has examined.
scan_step_Consuming ==
  /\ handler = "decode"
  /\ scan.k <= ValidCount(total_writes, PYPY_DEBUG_TRACEBACK_DEPTH)
  /\ LET i == ScanIndex(pypydtcount, PYPY_DEBUG_TRACEBACK_DEPTH, scan.k)
     IN /\ scan' = [k |-> scan.k + 1,
                    st |-> ScanStep(scan.st, Classify(pypy_debug_tracebacks[i])),
                    visited |-> Append(scan.visited, i)]
        /\ pypy_debug_tracebacks' = [pypy_debug_tracebacks EXCEPT ![i] = EmptySlot]
  /\ UNCHANGED <<RPY_LL_ASSERT, pypydtcount,
                 total_writes, recorded, output, decoded, pc, arg, seen,
                 threads, handler, stream, status>>

\* The scan examines one more slot.
scan_step ==
  /\ handler = "decode"
  /\ scan.k <= ValidCount(total_writes, PYPY_DEBUG_TRACEBACK_DEPTH)
  /\ LET i == ScanIndex(pypydtcount, PYPY_DEBUG_TRACEBACK_DEPTH, scan.k)
     IN scan' = [k |-> scan.k + 1,
                 st |-> ScanStep(scan.st, Classify(pypy_debug_tracebacks[i])),
                 visited |-> Append(scan.visited, i)]
  /\ UNCHANGED <<RPY_LL_ASSERT, pypy_debug_tracebacks, pypydtcount,
                 total_writes, recorded, output, decoded, pc, arg, seen,
                 threads, handler, stream, status>>

\* The scan ran out of entries: the segments are the decode result.
scan_finish ==
  /\ handler = "decode"
  /\ scan.k > ValidCount(total_writes, PYPY_DEBUG_TRACEBACK_DEPTH)
  /\ output' = ScanFinish(scan.st)
  /\ decoded' = TRUE
  /\ handler' = "render"
  /\ UNCHANGED <<RPY_LL_ASSERT, pypy_debug_tracebacks, pypydtcount,
                 total_writes, recorded, pc, arg, seen, threads, scan,
                 stream, status>>

\* The decode result is written to the diagnostic stream.
render_output ==
  /\ handler = "render"
  /\ stream' = stream \o render(output)
  /\ handler' = "exit"
  /\ UNCHANGED <<RPY_LL_ASSERT, pypy_debug_tracebacks, pypydtcount,
                 total_writes, recorded, output, decoded, pc, arg, seen,
                 threads, scan, status>>

\* Mutant: the process ends with status 0.
terminate_StatusZero ==
  /\ handler = "exit"
  /\ status' = 0
  /\ handler' = "terminated"
  /\ UNCHANGED <<RPY_LL_ASSERT, pypy_debug_tracebacks, pypydtcount,
                 total_writes, recorded, output, decoded, pc, arg, seen,
                 threads, scan, stream>>

\* The process is terminated with a non-zero status.
terminate ==
  /\ handler = "exit"
  /\ status' = EXIT_FATAL
  /\ handler' = "terminated"
  /\ UNCHANGED <<RPY_LL_ASSERT, pypy_debug_tracebacks, pypydtcount,
                 total_writes, recorded, output, decoded, pc, arg, seen,
                 threads, scan, stream>>

FatalLocations == {f_17}

FatalTokens == {KeyError}

InitFatal == InitStore(FALSE)

NextFatal ==
  \/ \E loc \in FatalLocations : record_frame(loc)
  \/ \E tok \in FatalTokens : record_origin(tok)
  \/ \E tok \in FatalTokens : record_reraise(tok)
  \/ on_unhandled_exception
  \/ scan_step
  \/ scan_finish
  \/ render_output
  \/ terminate

\* The handler runs on the call stack of the failing thread and is neither
\* suspended nor cancelled: each of its steps is taken once it is enabled.
SpecFatal ==
  /\ InitFatal
  /\ [][NextFatal]_vars
  /\ WF_vars(scan_step)
  /\ WF_vars(scan_finish)
  /\ WF_vars(render_output)
  /\ WF_vars(terminate)

----------------------------------------------------------------------------
(* The buffer at its configured depths, 8192 and 128, for the arithmetic of *)
(* the cursor: the macro applied over and over to a zero-initialised array  *)
(* of the real size.                                                        *)

DEPTH_LL_ASSERT == 8192

DEPTH_DEFAULT == 128

\* #ifdef RPY_LL_ASSERT ... 8192 ... #else ... 128, unscaled.
FullDepth(ll_assert) == IF ll_assert THEN DEPTH_LL_ASSERT ELSE DEPTH_DEFAULT

\* pypydtcount is an int; 32767 is the smallest INT_MAX a C int may have.
INT_MAX == 32767

\* PYPYDTSTORE(loc, etype) on the full-size array.
full_depth_store(loc, etype) ==
  /\ pypy_debug_tracebacks' =
       StoreExctype(StoreLocation(pypy_debug_tracebacks, pypydtcount, loc),
                    pypydtcount, etype)
  /\ pypydtcount' = AdvanceCount(pypydtcount, FullDepth(RPY_LL_ASSERT))
  /\ UNCHANGED <<RPY_LL_ASSERT, total_writes, recorded, output, decoded, pc,
                 arg, seen, threads, fatal>>

InitFullDepth ==
  /\ RPY_LL_ASSERT \in BOOLEAN
  /\ pypy_debug_tracebacks = [i \in 0..(FullDepth(RPY_LL_ASSERT) - 1) |-> EmptySlot]
  /\ pypydtcount = 0
  /\ total_writes = 0
  /\ recorded = <<>>
  /\ output = <<>>
  /\ decoded = FALSE
  /\ pc = "idle"
  /\ arg = EmptySlot
  /\ seen = NothingSeen
  /\ running = "main"
  /\ owner = <<>>
  /\ handler = "none"
  /\ scan = ScanIdle
  /\ stream = <<>>
  /\ status = 0

NextFullDepth == full_depth_store(f_17, NULL)

SpecFullDepth == InitFullDepth /\ [][NextFullDepth]_vars

----------------------------------------------------------------------------
(* Vocabulary of the properties.                                            *)

RECURSIVE Reverse(_)
Reverse(s) == IF s = <<>> THEN <<>> ELSE Append(Reverse(Tail(s)), Head(s))

\* The last n elements of s (all of s when it is shorter).
LastN(s, n) ==
  IF Len(s) <= n THEN s ELSE SubSeq(s, Len(s) - n + 1, Len(s))

\* The frame and marker elements of a decode result, in output order.
RECURSIVE Elements(_)
Elements(segs) ==
  IF segs = <<>> THEN <<>> ELSE Head(segs).path \o Elements(Tail(segs))

\* The recorded entries still in the buffer, newest first.
Surviving == Reverse(LastN(recorded, PYPY_DEBUG_TRACEBACK_DEPTH))

Kinds(s) == {s[i].kind : i \in 1..Len(s)}

----------------------------------------------------------------------------
C2_DecodeAfterWrap ==
  (decoded /\ Len(recorded) > PYPY_DEBUG_TRACEBACK_DEPTH)
    => /\ Len(Elements(output)) = PYPY_DEBUG_TRACEBACK_DEPTH
       /\ Elements(output) = Surviving

\* C2 witness: capacity + 1 appends, decoded, and the first entry recorded is
\* not among the elements.
C2_Witness ==
  /\ decoded
  /\ Len(recorded) = PYPY_DEBUG_TRACEBACK_DEPTH + 1
  /\ \A i \in 1..Len(Elements(output)) : Elements(output)[i] # recorded[1]

\* The store as initialised: every slot empty, the cursor at 0.
Untouched ==
  /\ pypydtcount = 0
  /\ \A i \in DOMAIN pypy_debug_tracebacks : pypy_debug_tracebacks[i] = EmptySlot

WrittenSlots(tb) == Cardinality({i \in DOMAIN tb : tb[i] # EmptySlot})

AppendEnabled ==
  /\ \A loc \in Locations : ENABLED record_frame(loc)
  /\ \A tok \in Tokens : ENABLED record_origin(tok)
  /\ \A tok \in Tokens : ENABLED record_reraise(tok)

\* An append on a full store: the slot at the cursor held the oldest
\* surviving entry, now holds the new one, and no other slot changed.
OverwritesOldest ==
  LET d == PYPY_DEBUG_TRACEBACK_DEPTH
      c == pypydtcount
  IN  /\ Classify(pypy_debug_tracebacks[c]) = recorded[Len(recorded) - d + 1]
      /\ Classify(pypy_debug_tracebacks'[c]) = recorded'[Len(recorded')]
      /\ \A i \in DOMAIN pypy_debug_tracebacks :
           i # c => pypy_debug_tracebacks'[i] = pypy_debug_tracebacks[i]
      /\ Surviving' = <<recorded'[Len(recorded')]>>
                        \o SubSeq(Surviving, 1, d - 1)

\* C8: an append is enabled in every state (up to the model's bound on the
\* number of writes), the full store included, and on a full store it
\* overwrites exactly the oldest surviving entry.
C8_AppendNeverFails ==
  /\ []((pc = "idle" /\ total_writes < MaxWrites) => AppendEnabled)
  /\ [][(total_writes' = total_writes + 1
          /\ total_writes >= PYPY_DEBUG_TRACEBACK_DEPTH) => OverwritesOldest]_vars

\* C8 witness: more than capacity entries appended, and a further append
\* still possible.
C8_Witness ==
  /\ total_writes > PYPY_DEBUG_TRACEBACK_DEPTH
  /\ total_writes < MaxWrites
  /\ AppendEnabled

----------------------------------------------------------------------------
(* Segments of a decode result.                                             *)

\* Index of the segment that holds the p-th element of the output.
RECURSIVE SegIndex(_, _)
SegIndex(segs, p) ==
  IF p <= Len(Head(segs).path) THEN 1
  ELSE 1 + SegIndex(Tail(segs), p - Len(Head(segs).path))

SegmentAt(p) == output[SegIndex(output, p)]

LastElement(seg) == seg.path[Len(seg.path)]

\* The path of a segment, oldest first: locations of its frames and the
\* re-raise marker; the closing origin marker is the label, not a step.
RECURSIVE ChronoPath(_)
ChronoPath(path) ==
  IF path = <<>> THEN <<>>
  ELSE LET e == Head(path)
           rest == ChronoPath(Tail(path))
       IN  CASE e.kind = "frame" -> Append(rest, e.loc)
             [] e.kind = "reraise" -> Append(rest, PYPYDTPOS_RERAISE)
             [] OTHER -> rest

HasFrame(seg, loc) == \E i \in 1..Len(seg.path) : seg.path[i] = Frame(loc)

FrameCount(seg) == Cardinality({i \in 1..Len(seg.path) : seg.path[i].kind = "frame"})

\* Surviving[p] is a Reraise and Surviving[q] an older Origin of the same token.
ReraiseWithOrigin(p, q) ==
  /\ p < q
  /\ Surviving[p].kind = "reraise"
  /\ Surviving[q].kind = "origin"
  /\ Surviving[q].exc = Surviving[p].exc

\* Surviving[p] is a Reraise and no older Origin of its token survives.
ReraiseWithoutOrigin(p) ==
  /\ Surviving[p].kind = "reraise"
  /\ \A q \in (p + 1)..Len(Surviving) :
       ~(Surviving[q].kind = "origin" /\ Surviving[q].exc = Surviving[p].exc)

CanonicalClaimed ==
  <<Frame(h_5), Origin(KeyError), Frame(g_12), Frame(f_17), Reraise(KeyError),
    Frame(entry_25)>>

\* The order of the header's table: the origin marker is stored first.
CanonicalStored ==
  <<Origin(KeyError), Frame(h_5), Frame(g_12), Frame(f_17), Reraise(KeyError),
    Frame(entry_25)>>

CanonicalPath == <<h_5, g_12, f_17, PYPYDTPOS_RERAISE, entry_25>>

NoOtherReraiseBetween(p, q) ==
  \A r \in (p + 1)..(q - 1) :
    Surviving[r].kind = "reraise" => Surviving[r].exc = Surviving[p].exc

C5_UnknownOrigin ==
  decoded =>
    /\ Elements(output) = Surviving
    /\ \A i \in 1..Len(output) : output[i].origin \in {"known", "unknown"}
    /\ \A p \in 1..Len(Surviving) :
         ReraiseWithoutOrigin(p) =>
           /\ SegmentAt(p).exc = Surviving[p].exc
           /\ SegmentAt(p).origin = "unknown"

\* C5 witness: Origin(K) was overwritten by wraparound, its Reraise(K)
\* survives, and the decode reports K with unknown origin.
C5_Witness ==
  /\ decoded
  /\ Len(recorded) > PYPY_DEBUG_TRACEBACK_DEPTH
  /\ recorded[1] = Origin(KeyError)
  /\ \E p \in 1..Len(Surviving) :
       Surviving[p] = Reraise(KeyError) /\ ReraiseWithoutOrigin(p)
  /\ output[Len(output)].exc = KeyError
  /\ output[Len(output)].origin = "unknown"

----------------------------------------------------------------------------
\* The slot contents one whole append of entry e leaves.
Encode(e) ==
  pypydtentry_s(IF e.kind = "reraise" THEN PYPYDTPOS_RERAISE ELSE e.loc, e.exc)

\* Slot contents that are no mixture: the empty slot, the entries appended,
\* and the entry of the append in progress.
WholeSlots ==
  {EmptySlot} \cup {Encode(recorded[k]) : k \in 1..Len(recorded)}
              \cup (IF pc = "idle" THEN {} ELSE {arg})

\* C10 as claimed: a decode on another thread never reads a slot whose
\* location comes from one append and whose exctype from another, and never
\* reads a cursor still at a slot that an append has begun to write.
C10_AppendIndivisible_AsClaimed ==
  /\ pypydtentry_s(seen.location, seen.exctype) \in WholeSlots
  /\ ~(seen.writing /\ seen.index = seen.count)

----------------------------------------------------------------------------
\* The entries thread t recorded, oldest first.
RECURSIVE OwnEntries(_, _, _)
OwnEntries(rec, own, t) ==
  IF rec = <<>> THEN <<>>
  ELSE IF Head(own) = t
    THEN <<Head(rec)>> \o OwnEntries(Tail(rec), Tail(own), t)
  ELSE OwnEntries(Tail(rec), Tail(own), t)

\* C11 as claimed: each thread has its own store, so the decode of the
\* running thread returns only the entries that thread recorded, in its own
\* order (newest first), whatever the other thread appended in between.
C11_PerThreadStore_AsClaimed ==
  decoded =>
    Elements(output) =
      Reverse(LastN(OwnEntries(recorded, owner, running), PYPY_DEBUG_TRACEBACK_DEPTH))

----------------------------------------------------------------------------
\* The slot the k-th append wrote (k counted from 1).
SlotOf(k) == (k - 1) % PYPY_DEBUG_TRACEBACK_DEPTH

\* The slots read forward from the cursor, in circular order.
ForwardFromCursor ==
  [k \in 1..PYPY_DEBUG_TRACEBACK_DEPTH |->
     pypy_debug_tracebacks[(pypydtcount + k - 1) % PYPY_DEBUG_TRACEBACK_DEPTH]]

\* A step that is an append: one more entry in the history.
IsAppend == Len(recorded') = Len(recorded) + 1

\* The entry appended by such a step.
NewEntry == recorded'[Len(recorded')]

\* C12: the cursor designates the slot the next append writes; once capacity
\* appends have happened that slot holds the oldest surviving entry, the one
\* recorded capacity appends ago, and the slots read forward from the cursor
\* are the surviving entries, oldest to newest.
C12_CursorAtOldest ==
  /\ [][IsAppend => pypy_debug_tracebacks'[pypydtcount] = Encode(NewEntry)]_vars
  /\ [](Len(recorded) >= PYPY_DEBUG_TRACEBACK_DEPTH =>
          /\ pypy_debug_tracebacks[pypydtcount] =
               Encode(recorded[Len(recorded) - PYPY_DEBUG_TRACEBACK_DEPTH + 1])
          /\ ForwardFromCursor =
               [k \in 1..PYPY_DEBUG_TRACEBACK_DEPTH |->
                  Encode(LastN(recorded, PYPY_DEBUG_TRACEBACK_DEPTH)[k])])

\* C12 witness: the buffer has wrapped, the cursor is in the middle of the
\* ring, and the slot under it holds the oldest surviving entry.
C12_Witness ==
  /\ Len(recorded) = PYPY_DEBUG_TRACEBACK_DEPTH + 2
  /\ pypydtcount = 2
  /\ pypy_debug_tracebacks[pypydtcount] = Encode(recorded[3])
  /\ recorded[3] # recorded[2]

\* C14: an append writes exactly the slot at the cursor it found, moves the
\* cursor to that value plus one modulo capacity and leaves every other slot
\* alone; no other step touches the buffer; so the entry of the k-th append
\* is intact in its slot as long as fewer than capacity appends followed it.
C14_AppendFrame ==
  /\ [][IsAppend =>
         /\ pypy_debug_tracebacks'[pypydtcount] = Encode(NewEntry)
         /\ \A i \in DOMAIN pypy_debug_tracebacks :
              i # pypydtcount => pypy_debug_tracebacks'[i] = pypy_debug_tracebacks[i]
         /\ pypydtcount' = (pypydtcount + 1) % PYPY_DEBUG_TRACEBACK_DEPTH]_vars
  /\ [][~IsAppend => UNCHANGED <<pypy_debug_tracebacks, pypydtcount>>]_vars
  /\ [](\A k \in 1..Len(recorded) :
          k + PYPY_DEBUG_TRACEBACK_DEPTH > Len(recorded)
            => pypy_debug_tracebacks[SlotOf(k)] = Encode(recorded[k]))

\* C14 witness: a wrapped buffer in which the first append's entry has been
\* overwritten by the (1 + capacity)-th and the second append's is intact.
C14_Witness ==
  /\ Len(recorded) = PYPY_DEBUG_TRACEBACK_DEPTH + 1
  /\ recorded[1] # recorded[PYPY_DEBUG_TRACEBACK_DEPTH + 1]
  /\ pypy_debug_tracebacks[SlotOf(1)] = Encode(recorded[PYPY_DEBUG_TRACEBACK_DEPTH + 1])
  /\ pypy_debug_tracebacks[SlotOf(2)] = Encode(recorded[2])
  /\ decoded

----------------------------------------------------------------------------
\* The decode of the store as it stands.
DecodeNow ==
  Decode(pypy_debug_tracebacks, pypydtcount, total_writes, PYPY_DEBUG_TRACEBACK_DEPTH)

----------------------------------------------------------------------------
\* No index occurs twice in q.
NoRepeat(q) == \A i, j \in 1..Len(q) : q[i] = q[j] => i = j

IsDecodeOrRender ==
  \/ scan' # scan
  \/ output' # output /\ decoded'
  \/ decoded' /\ ~decoded
  \/ stream' # stream

\* C17: decode and render leave the cursor and every slot as they found
\* them; the store changes only in a recorder append.
C17_DecodeReadOnly ==
  /\ [][IsDecodeOrRender => UNCHANGED <<pypy_debug_tracebacks, pypydtcount>>]_vars
  /\ [][(pypy_debug_tracebacks' # pypy_debug_tracebacks \/ pypydtcount' # pypydtcount)
          => IsAppend /\ ~IsDecodeOrRender]_vars

\* C17 witness: a non-empty store has been decoded and rendered, and still
\* holds every surviving entry.
C17_Witness ==
  /\ handler = "exit"
  /\ stream # <<>>
  /\ Len(recorded) = PYPY_DEBUG_TRACEBACK_DEPTH
  /\ \A k \in 1..Len(recorded) :
       pypy_debug_tracebacks[SlotOf(k)] = Encode(recorded[k])
  /\ pypydtcount = 0

----------------------------------------------------------------------------
\* C15: for the capacities 128 and 8192 the masked update of the cursor is
\* the update modulo capacity; after any number of appends the cursor is in
\* 0 .. capacity-1, incrementing it cannot overflow an int, and the slot an
\* append indexes is inside the array.
C15_CursorInRange ==
  /\ [](/\ FullDepth(RPY_LL_ASSERT) \in {128, 8192}
         /\ BitAnd(pypydtcount + 1, FullDepth(RPY_LL_ASSERT) - 1)
              = (pypydtcount + 1) % FullDepth(RPY_LL_ASSERT)
         /\ 0 <= pypydtcount
         /\ pypydtcount < FullDepth(RPY_LL_ASSERT)
         /\ pypydtcount + 1 <= INT_MAX
         /\ pypydtcount \in DOMAIN pypy_debug_tracebacks)
  /\ [][pypydtcount' = (pypydtcount + 1) % FullDepth(RPY_LL_ASSERT)]_vars

\* C15 witness: the 128-slot buffer has been filled to its last slot and the
\* cursor has wrapped from 127 to 0.
C15_Witness ==
  /\ ~RPY_LL_ASSERT
  /\ pypydtcount = 0
  /\ pypy_debug_tracebacks[DEPTH_DEFAULT - 1] # EmptySlot

----------------------------------------------------------------------------
\* The appends whose entries are still in the buffer.
SurvivingAppends ==
  {k \in 1..Len(recorded) : k + PYPY_DEBUG_TRACEBACK_DEPTH > Len(recorded)}

\* C18: the kind and the payload of an entry survive the (location, exctype)
\* encoding: the slot of every surviving Frame, Origin or Reraise is read
\* back as that same entry, the re-raise sentinel being neither NULL nor a
\* location in use and no exception token being NULL.
C18_KindSurvives ==
  /\ PYPYDTPOS_RERAISE # NULL
  /\ \A loc \in Locations : loc # NULL /\ loc # PYPYDTPOS_RERAISE
  /\ \A tok \in Tokens : tok # NULL
  /\ \A k \in SurvivingAppends :
       /\ Classify(pypy_debug_tracebacks[SlotOf(k)]).kind = recorded[k].kind
       /\ Classify(pypy_debug_tracebacks[SlotOf(k)]) = recorded[k]

\* C18 witness: a wrapped buffer whose slots hold a frame, an origin and a
\* re-raise, each read back as recorded.
C18_Witness ==
  /\ Len(recorded) > PYPY_DEBUG_TRACEBACK_DEPTH
  /\ {Classify(pypy_debug_tracebacks[i]).kind : i \in DOMAIN pypy_debug_tracebacks}
       = {"frame", "origin", "reraise"}
  /\ {recorded[k].kind : k \in SurvivingAppends} = {"frame", "origin", "reraise"}

\* C19: a slot written by an append never looks like a never-written one (its
\* location or its exctype is not NULL), and after n < capacity appends the
\* slots n .. capacity-1 still hold (NULL, NULL).
C19_EmptyDistinguishable ==
  /\ \A k \in SurvivingAppends :
       \/ pypy_debug_tracebacks[SlotOf(k)].location # NULL
       \/ pypy_debug_tracebacks[SlotOf(k)].exctype # NULL
  /\ Len(recorded) < PYPY_DEBUG_TRACEBACK_DEPTH =>
       \A i \in Len(recorded)..(PYPY_DEBUG_TRACEBACK_DEPTH - 1) :
         pypy_debug_tracebacks[i] = EmptySlot

\* C19 witness: a frame and an origin are in slots 0 and 1 and the rest of
\* the buffer has never been written.
C19_Witness ==
  /\ Len(recorded) = 2
  /\ recorded[1].kind = "frame"
  /\ recorded[2].kind = "origin"
  /\ pypy_debug_tracebacks[0].exctype = NULL
  /\ pypy_debug_tracebacks[1].location = NULL
  /\ \A i \in 2..(PYPY_DEBUG_TRACEBACK_DEPTH - 1) : pypy_debug_tracebacks[i] = EmptySlot

====
